---- MODULE Spec2Model ----
(***************************************************************************)
(* Conditions and condition sets of djblets/conditions/conditions.py.      *)
(*                                                                         *)
(* Python values are modelled as strings.  None is the string "<None>", a  *)
(* key that a dict does not have is simply not in the DOMAIN of the        *)
(* function that models the dict.  Objects with identity (the lists that   *)
(* ConditionSet.conditions refers to) live in a heap and are referred to   *)
(* by their index.                                                         *)
(***************************************************************************)
EXTENDS Integers, Sequences, FiniteSets, TLC

VARIABLES
    lists,   \* heap of list objects: lists[r] is the content of list r
    sets,    \* the ConditionSet objects built so far: [mode, conditions (a list ref)]
    last     \* the last call made: its arguments, its outcome, the collaborator calls

vars == <<lists, sets, last>>

\* ------------------------------------------------------------------ bounds

MaxSets == 2         \* ConditionSet objects kept alive
MaxLen == 2          \* conditions in a list built or grown by the caller
MaxFragments == 3    \* condition fragments in a payload's "conditions" list

\* ------------------------------------------------------------ Python values

None == "<None>"

\* condition_index=None, kept an integer so that indexes stay comparable.
NoIndex == -1

\* '%s' % x
ToStr(x) == IF x = None THEN "None" ELSE x

HasKey(d, k) == k \in DOMAIN d

\* ConditionSet.MODE_ALL / MODE_ANY
MODE_ALL == "all"
MODE_ANY == "any"

\* ----------------------------------------------------------------- errors
\* The exceptions of djblets.conditions.errors: a message (the pieces of the
\* formatted text) and the optional attributes, None / NoIndex when not given.

NoError == [type |-> "none", msg |-> <<>>, choice_id |-> None,
            operator_id |-> None, condition_index |-> NoIndex]

ConditionChoiceNotFoundError(msg, choice_id, condition_index) ==
    [type |-> "ConditionChoiceNotFoundError", msg |-> msg, choice_id |-> choice_id,
     operator_id |-> None, condition_index |-> condition_index]

ConditionOperatorNotFoundError(msg, operator_id, condition_index) ==
    [type |-> "ConditionOperatorNotFoundError", msg |-> msg, choice_id |-> None,
     operator_id |-> operator_id, condition_index |-> condition_index]

InvalidConditionValueError(msg, condition_index) ==
    [type |-> "InvalidConditionValueError", msg |-> msg, choice_id |-> None,
     operator_id |-> None, condition_index |-> condition_index]

InvalidConditionModeError(mode) ==
    [type |-> "InvalidConditionModeError",
     msg |-> <<"\"", ToStr(mode), "\" is not a valid condition mode.">>,
     choice_id |-> None, operator_id |-> None, condition_index |-> NoIndex]

\* ------------------------------------------------ the external collaborators
\* The choice registry, the operators of each choice and the value fields are
\* not part of conditions.py; they are modelled by the interface it consumes.
\*   status: "is" (a field of the states open/closed), "is_empty" (no field)
\*   owner:  "is" (a field of user names, null meaning nobody)

ChoiceIds == {"status", "owner"}

OperatorIds(choice_id) ==
    IF choice_id = "status" THEN {"is", "is_empty"} ELSE {"is"}

\* operator.value_field, None for an operator that takes no operand
ValueField(choice_id, operator_id) ==
    IF operator_id = "is_empty" THEN None
    ELSE IF choice_id = "status" THEN "state" ELSE "user"

\* choices.get_choice(choice_id)
GetChoice(choice_id) ==
    IF choice_id \in ChoiceIds
    THEN [ok |-> TRUE, choice |-> choice_id, msg |-> <<>>]
    ELSE [ok |-> FALSE, choice |-> None,
          msg |-> <<"No condition choice was found matching \"",
                    ToStr(choice_id), "\".">>]

\* choice.get_operator(operator_id)
GetOperator(choice, operator_id) ==
    IF operator_id \in OperatorIds(choice)
    THEN [ok |-> TRUE, operator |-> operator_id, msg |-> <<>>]
    ELSE [ok |-> FALSE, operator |-> None,
          msg |-> <<"No operator was found matching \"",
                    ToStr(operator_id), "\".">>]

\* The typed values a field produces, and their serialized form.
FieldValues(field) ==
    IF field = "state" THEN {"State.OPEN", "State.CLOSED"}
    ELSE IF field = "user" THEN {"User(alice)", None}
    ELSE {}

\* value_field.serialize_value(value)
SerializeValue(field, value) ==
    CASE value = "State.OPEN" -> "open"
      [] value = "State.CLOSED" -> "closed"
      [] value = "User(alice)" -> "alice"
      [] OTHER -> value

\* value_field.deserialize_value(raw): the typed value, or InvalidConditionValueError
DeserializeValue(field, raw) ==
    IF \E v \in FieldValues(field) : SerializeValue(field, v) = raw
    THEN [ok |-> TRUE,
          value |-> CHOOSE v \in FieldValues(field) : SerializeValue(field, v) = raw,
          msg |-> <<>>]
    ELSE [ok |-> FALSE, value |-> None,
          msg |-> <<"\"", ToStr(raw), "\" is not a valid value.">>]

\* choice.get_match_value(value): the part of the runtime object the choice inspects
GetMatchValue(choice, value) == value[choice]

\* operator.matches(match_value, condition_value)
OperatorMatches(operator, match_value, condition_value) ==
    IF operator = "is_empty" THEN match_value = None
    ELSE match_value = condition_value

\* -------------------------------------------------------------- Condition

\* Condition.__init__(choice, operator, value=None, raw_value=None)
ConditionInit(choice, operator, value, raw_value) ==
    [choice |-> choice, operator |-> operator, value |-> value,
     raw_value |-> IF raw_value = None THEN value ELSE raw_value]

NoCondition == ConditionInit(None, None, None, None)

Call(fn, arg, index) == [fn |-> fn, arg |-> arg, index |-> index]

Raised(err, calls) == [ok |-> FALSE, cond |-> NoCondition, err |-> err, calls |-> calls]
Returned(cond, calls) == [ok |-> TRUE, cond |-> cond, err |-> NoError, calls |-> calls]

\* Load the value as data.get('value') would: a null value counts as missing.
LoadValueNullIsMissing(choice, operator, data, condition_index, calls) ==
    IF ~HasKey(data, "value") \/ data["value"] = None
    THEN Raised(InvalidConditionValueError(<<"A value is required.">>, condition_index),
                calls)
    ELSE LET raw_value == data["value"]
             got == DeserializeValue(ValueField(choice, operator), raw_value)
             called == Append(calls, Call("deserialize_value", raw_value, condition_index))
         IN  IF got.ok
             THEN Returned(ConditionInit(choice, operator, got.value, raw_value), called)
             ELSE Raised(InvalidConditionValueError(got.msg, condition_index), called)

\* Load the value without deserializing it: the raw value is stored as the value.
LoadValueRaw(choice, operator, data, condition_index, calls) ==
    IF ~HasKey(data, "value")
    THEN Raised(InvalidConditionValueError(<<"A value is required.">>, condition_index),
                calls)
    ELSE Returned(ConditionInit(choice, operator, data["value"], data["value"]), calls)

\* "Load the value" of Condition.deserialize, for an operator with a value field
LoadValue(choice, operator, data, condition_index, calls) ==
    IF ~HasKey(data, "value")
    THEN Raised(InvalidConditionValueError(<<"A value is required.">>, condition_index),
                calls)
    ELSE LET raw_value == data["value"]
             field == ValueField(choice, operator)
             got == DeserializeValue(field, raw_value)
             called == Append(calls, Call("deserialize_value", raw_value, condition_index))
         IN  IF got.ok
             THEN Returned(ConditionInit(choice, operator, got.value, raw_value), called)
             ELSE Raised(InvalidConditionValueError(got.msg, condition_index), called)

\* Load the operator, and keep the payload's value for an operator without a field.
LoadOperatorKeepValue(choice, operator_id, data, condition_index, calls) ==
    LET got == GetOperator(choice, operator_id)
        called == Append(calls, Call("get_operator", operator_id, condition_index))
    IN  IF ~got.ok
        THEN Raised(ConditionOperatorNotFoundError(got.msg, operator_id, condition_index),
                    called)
        ELSE IF ValueField(choice, got.operator) # None
        THEN LoadValue(choice, got.operator, data, condition_index, called)
        ELSE Returned(ConditionInit(choice, got.operator, None,
                                    IF HasKey(data, "value") THEN data["value"] ELSE None),
                      called)

\* "Load the operator" of Condition.deserialize, and what follows it
LoadOperator(choice, operator_id, data, condition_index, calls) ==
    LET got == GetOperator(choice, operator_id)
        called == Append(calls, Call("get_operator", operator_id, condition_index))
    IN  IF ~got.ok
        THEN Raised(ConditionOperatorNotFoundError(got.msg, operator_id, condition_index),
                    called)
        ELSE IF ValueField(choice, got.operator) # None
        THEN LoadValue(choice, got.operator, data, condition_index, called)
        ELSE Returned(ConditionInit(choice, got.operator, None, None), called)

\* Load the choice, and raise without saying which choice was not found.
LoadChoiceNoId(choice_id, operator_id, data, condition_index) ==
    LET got == GetChoice(choice_id)
        called == <<Call("get_choice", choice_id, condition_index)>>
    IN  IF ~got.ok
        THEN Raised(ConditionChoiceNotFoundError(got.msg, None, condition_index), called)
        ELSE LoadOperator(got.choice, operator_id, data, condition_index, called)

\* "Load the choice" of Condition.deserialize, and what follows it
LoadChoice(choice_id, operator_id, data, condition_index) ==
    LET got == GetChoice(choice_id)
        called == <<Call("get_choice", choice_id, condition_index)>>
    IN  IF ~got.ok
        THEN Raised(ConditionChoiceNotFoundError(got.msg, choice_id, condition_index),
                    called)
        ELSE LoadOperator(got.choice, operator_id, data, condition_index, called)

\* Condition.deserialize with the choice looked up as soon as its key is read,
\* before the "op" key is looked at.
ConditionDeserializeChoiceFirst(data, condition_index) ==
    IF ~HasKey(data, "choice")
    THEN Raised(ConditionChoiceNotFoundError(<<"A choice is required.">>, None,
                                             condition_index), <<>>)
    ELSE IF ~GetChoice(data["choice"]).ok
    THEN LoadChoice(data["choice"], None, data, condition_index)
    ELSE IF ~HasKey(data, "op")
    THEN Raised(ConditionOperatorNotFoundError(<<"An operator is required.">>, None,
                                               condition_index),
                <<Call("get_choice", data["choice"], condition_index)>>)
    ELSE LoadChoice(data["choice"], data["op"], data, condition_index)

\* Condition.deserialize(choices, data, condition_index)
ConditionDeserialize(data, condition_index) ==
    IF ~HasKey(data, "choice")
    THEN Raised(ConditionChoiceNotFoundError(<<"A choice is required.">>, None,
                                             condition_index), <<>>)
    ELSE IF ~HasKey(data, "op")
    THEN Raised(ConditionOperatorNotFoundError(<<"An operator is required.">>, None,
                                               condition_index), <<>>)
    ELSE LoadChoice(data["choice"], data["op"], data, condition_index)

\* Condition.matches(value)
ConditionMatches(cond, value) ==
    OperatorMatches(cond.operator, GetMatchValue(cond.choice, value), cond.value)

\* Serialize the condition with its raw_value, the value field left out of it.
ConditionSerializeRaw(cond) ==
    LET has_field == ValueField(cond.choice, cond.operator) # None
    IN  [k \in {"choice", "op"} \cup (IF has_field THEN {"value"} ELSE {}) |->
            CASE k = "choice" -> cond.choice
              [] k = "op" -> cond.operator
              [] OTHER -> cond.raw_value]

\* Condition.serialize(): a dict with the keys choice, op and, for an operator
\* with a value field, value
ConditionSerialize(cond) ==
    LET has_field == ValueField(cond.choice, cond.operator) # None
        value == IF cond.value = None THEN None
                 ELSE SerializeValue(ValueField(cond.choice, cond.operator), cond.value)
    IN  [k \in {"choice", "op"} \cup (IF has_field THEN {"value"} ELSE {}) |->
            CASE k = "choice" -> cond.choice
              [] k = "op" -> cond.operator
              [] OTHER -> value]

\* ------------------------------------------------------------ ConditionSet

\* A mode check that lets a missing mode through.
ValidModeOrNone(mode) == mode \in {MODE_ALL, MODE_ANY, None}

\* The mode check of ConditionSet.__init__ and of ConditionSet.deserialize
ValidMode(mode) == mode \in {MODE_ALL, MODE_ANY}

SetRaised(err, calls) ==
    [ok |-> FALSE, mode |-> None, conds |-> <<>>, err |-> err, calls |-> calls]

\* ConditionSet.__init__(mode, conditions): the object's fields, or InvalidConditionModeError
ConditionSetInit(mode, conds, calls) ==
    IF ~ValidMode(mode)
    THEN SetRaised(InvalidConditionModeError(mode), calls)
    ELSE [ok |-> TRUE, mode |-> mode, conds |-> conds, err |-> NoError, calls |-> calls]

\* The list comprehension with the positions counted from 1.
RECURSIVE DeserializeConditionsFromOne(_, _, _, _)
DeserializeConditionsFromOne(datas, i, conds, calls) ==
    IF i > Len(datas)
    THEN [ok |-> TRUE, conds |-> conds, err |-> NoError, calls |-> calls]
    ELSE LET got == ConditionDeserialize(datas[i], i)
         IN  IF got.ok
             THEN DeserializeConditionsFromOne(datas, i + 1, Append(conds, got.cond),
                                               calls \o got.calls)
             ELSE [ok |-> FALSE, conds |-> <<>>, err |-> got.err,
                   calls |-> calls \o got.calls]

\* The list comprehension of ConditionSet.deserialize: the fragments from
\* position i on (1-based here, enumerate() counts from 0), stopping at the
\* first one that raises.
RECURSIVE DeserializeConditions(_, _, _, _)
DeserializeConditions(datas, i, conds, calls) ==
    IF i > Len(datas)
    THEN [ok |-> TRUE, conds |-> conds, err |-> NoError, calls |-> calls]
    ELSE LET got == ConditionDeserialize(datas[i], i - 1)
         IN  IF got.ok
             THEN DeserializeConditions(datas, i + 1, Append(conds, got.cond),
                                        calls \o got.calls)
             ELSE [ok |-> FALSE, conds |-> <<>>, err |-> got.err,
                   calls |-> calls \o got.calls]

\* ConditionSet.deserialize(choices, data)
ConditionSetDeserialize(data) ==
    LET mode == IF HasKey(data, "mode") THEN data["mode"] ELSE None
        datas == IF HasKey(data, "conditions") THEN data["conditions"] ELSE <<>>
    IN  IF ~ValidMode(mode)
        THEN SetRaised(InvalidConditionModeError(mode), <<>>)
        ELSE LET got == DeserializeConditions(datas, 1, <<>>, <<>>)
             IN  IF got.ok
                 THEN ConditionSetInit(mode, got.conds, got.calls)
                 ELSE SetRaised(got.err, got.calls)

\* all(condition.matches(value) for condition in conditions)
RECURSIVE MatchAll(_, _, _)
MatchAll(conds, value, i) ==
    IF i > Len(conds) THEN TRUE
    ELSE IF ~ConditionMatches(conds[i], value) THEN FALSE
    ELSE MatchAll(conds, value, i + 1)

\* any() that returns from the loop on the first condition, matched or not.
MatchAnyFirstOnly(conds, value, i) ==
    IF i > Len(conds) THEN FALSE ELSE ConditionMatches(conds[i], value)

\* any(condition.matches(value) for condition in conditions)
RECURSIVE MatchAny(_, _, _)
MatchAny(conds, value, i) ==
    IF i > Len(conds) THEN FALSE
    ELSE IF ConditionMatches(conds[i], value) THEN TRUE
    ELSE MatchAny(conds, value, i + 1)

\* ConditionSet.matches(value); raised is the assert False of the last branch
ConditionSetMatches(mode, conds, value) ==
    IF mode = MODE_ALL
    THEN [raised |-> FALSE, result |-> MatchAll(conds, value, 1)]
    ELSE IF mode = MODE_ANY
    THEN [raised |-> FALSE, result |-> MatchAny(conds, value, 1)]
    ELSE [raised |-> TRUE, result |-> FALSE]

\* ConditionSet.serialize()
ConditionSetSerialize(mode, conds) ==
    [k \in {"mode", "conditions"} |->
        IF k = "mode" THEN mode
        ELSE [i \in 1..Len(conds) |-> ConditionSerialize(conds[i])]]

\* ------------------------------------------------------------------ inputs

\* Marks a key that the caller leaves out of a dict.
Missing == "<missing>"

\* {"choice": choice, "op": op, "value": value}, without the keys given as Missing
Fragment(choice, op, value) ==
    [k \in {x \in {"choice", "op", "value"} :
              \/ x = "choice" /\ choice # Missing
              \/ x = "op" /\ op # Missing
              \/ x = "value" /\ value # Missing} |->
        CASE k = "choice" -> choice
          [] k = "op" -> op
          [] OTHER -> value]

\* {"mode": mode, "conditions": conditions}, without "mode" when given as Missing
Payload(mode, conditions) ==
    [k \in {x \in {"mode", "conditions"} : x = "mode" => mode # Missing} |->
        IF k = "mode" THEN mode ELSE conditions]

\* {"mode": mode}, or {} when mode is given as Missing
ModeOnly(mode) == [k \in {x \in {"mode"} : mode # Missing} |-> mode]

ChoiceInputs == {Missing, "status", "owner", "nope"}
OperatorInputs == {Missing, "is", "is_empty", "nope"}
ValueInputs == {Missing, None, "open", "closed", "alice", "nope"}
ModeInputs == {Missing, MODE_ALL, MODE_ANY, "sometimes"}

\* The fragments handed to Condition.deserialize on its own.
Fragments ==
    {Fragment(c, o, v) : c \in ChoiceInputs, o \in OperatorInputs, v \in ValueInputs}

\* The fragments payloads are made of: three well-formed ones and one for each
\* way a fragment can be malformed.
PayloadFragments ==
    {Fragment("status", "is", "open"),
     Fragment("status", "is_empty", "nope"),
     Fragment("owner", "is", None),
     Fragment(Missing, "is", "open"),
     Fragment("status", Missing, "open"),
     Fragment("nope", "is", "open"),
     Fragment("owner", "is_empty", Missing),
     Fragment("status", "is", Missing),
     Fragment("status", "is", "alice")}

SeqsUpTo(S, n) == UNION {[1..k -> S] : k \in 0..n}

Payloads ==
    {Payload(m, cs) : m \in ModeInputs, cs \in SeqsUpTo(PayloadFragments, MaxFragments)}
        \cup {ModeOnly(m) : m \in ModeInputs}

\* The conditions a caller builds directly: a registered choice, one of its
\* operators, and any value.
TypedValues == {None, "State.OPEN", "State.CLOSED", "User(alice)"}

BuiltConditions ==
    {x \in {ConditionInit(c, o, v, None) : c \in ChoiceIds, o \in {"is", "is_empty"},
                                           v \in TypedValues} :
        x.operator \in OperatorIds(x.choice)}

\* The runtime objects matched against.
RuntimeValues == [status : {None, "State.OPEN", "State.CLOSED"},
                  owner : {None, "User(alice)"}]

\* -------------------------------------------------------------------- state

\* The list object that the default conditions=[] of ConditionSet.__init__
\* denotes: created once, when the function is defined.
DefaultList == 1

Heap == [sets |-> sets, lists |-> lists]

\* The conditions of the i-th set.
Conditions(i) == lists[sets[i].conditions]

Idle ==
    [op |-> "none",
     data |-> <<>>,          \* the dict argument
     index |-> NoIndex,      \* the condition_index argument
     mode |-> None,          \* the mode argument
     omitted |-> FALSE,      \* the conditions argument was left out
     target |-> 0,           \* the set the method was called on
     value |-> [status |-> None, owner |-> None],   \* the runtime object
     ok |-> TRUE,            \* returned (TRUE) or raised (FALSE)
     err |-> NoError,        \* the exception raised
     calls |-> <<>>,         \* the collaborator calls made, in order
     cond |-> NoCondition,   \* the Condition returned
     out_mode |-> None,      \* the fields of the ConditionSet returned
     out_conds |-> <<>>,
     set |-> 0,              \* the place of the ConditionSet returned, if kept
     payload |-> <<>>,       \* the dict returned
     result |-> FALSE,       \* the bool returned
     before |-> [sets |-> <<>>, lists |-> << <<>> >>]]   \* the heap at the call

Init ==
    /\ lists = << <<>> >>
    /\ sets = <<>>
    /\ last = Idle

\* ------------------------------------------------------------------ actions

\* c = Condition(choice, operator, value, raw_value)
NewCondition(choice, operator, value, raw_value) ==
    /\ last' = [Idle EXCEPT !.op = "Condition",
                            !.cond = ConditionInit(choice, operator, value, raw_value),
                            !.before = Heap]
    /\ UNCHANGED <<lists, sets>>

\* c = Condition.deserialize(choices, data, condition_index)
CondDeserialize(data, condition_index) ==
    LET got == ConditionDeserialize(data, condition_index)
    IN  /\ last' = [Idle EXCEPT !.op = "Condition.deserialize",
                                !.data = data, !.index = condition_index,
                                !.ok = got.ok, !.err = got.err, !.calls = got.calls,
                                !.cond = got.cond, !.before = Heap]
        /\ UNCHANGED <<lists, sets>>

\* The last call returned a Condition, which the caller still holds.
HoldsCondition == last.ok /\ last.op \in {"Condition", "Condition.deserialize"}

\* c.serialize()
CondSerialize ==
    /\ HoldsCondition
    /\ last' = [Idle EXCEPT !.op = "Condition.serialize", !.cond = last.cond,
                            !.payload = ConditionSerialize(last.cond),
                            !.before = Heap]
    /\ UNCHANGED <<lists, sets>>

\* c.matches(value)
CondMatches(value) ==
    /\ HoldsCondition
    /\ last' = [Idle EXCEPT !.op = "Condition.matches", !.cond = last.cond,
                            !.value = value,
                            !.result = ConditionMatches(last.cond, value),
                            !.before = Heap]
    /\ UNCHANGED <<lists, sets>>

\* s = ConditionSet(mode) when omitted, s = ConditionSet(mode, list(conds)) otherwise
NewConditionSet(mode, omitted, conds) ==
    LET ref == IF omitted THEN DefaultList ELSE Len(lists) + 1
        heap == IF omitted THEN lists ELSE Append(lists, conds)
        got == ConditionSetInit(mode, heap[ref], <<>>)
    IN  /\ Len(sets) < MaxSets
        /\ omitted => conds = <<>>
        /\ last' = [Idle EXCEPT !.op = "ConditionSet", !.mode = mode,
                                !.omitted = omitted,
                                !.ok = got.ok, !.err = got.err,
                                !.out_mode = got.mode, !.out_conds = got.conds,
                                !.set = IF got.ok THEN Len(sets) + 1 ELSE 0,
                                !.before = Heap]
        /\ lists' = IF got.ok THEN heap ELSE lists
        /\ sets' = IF got.ok
                   THEN Append(sets, [mode |-> got.mode, conditions |-> ref])
                   ELSE sets

\* s = ConditionSet.deserialize(choices, data); the caller keeps s, or only
\* validates data and drops it
SetDeserialize(data, keep) ==
    LET got == ConditionSetDeserialize(data)
        kept == got.ok /\ keep
    IN  /\ kept => Len(sets) < MaxSets
        /\ last' = [Idle EXCEPT !.op = "ConditionSet.deserialize", !.data = data,
                                !.ok = got.ok, !.err = got.err, !.calls = got.calls,
                                !.out_mode = got.mode, !.out_conds = got.conds,
                                !.set = IF kept THEN Len(sets) + 1 ELSE 0,
                                !.before = Heap]
        /\ lists' = IF kept THEN Append(lists, got.conds) ELSE lists
        /\ sets' = IF kept
                   THEN Append(sets, [mode |-> got.mode, conditions |-> Len(lists) + 1])
                   ELSE sets

\* sets[i].conditions.append(cond)
AppendCondition(i, cond) ==
    /\ i \in 1..Len(sets)
    /\ Len(Conditions(i)) < MaxLen
    /\ last' = [Idle EXCEPT !.op = "append", !.target = i, !.cond = cond,
                            !.before = Heap]
    /\ lists' = [lists EXCEPT ![sets[i].conditions] = Append(@, cond)]
    /\ UNCHANGED sets

\* sets[i].matches(value)
SetMatches(i, value) ==
    LET got == ConditionSetMatches(sets[i].mode, Conditions(i), value)
    IN  /\ i \in 1..Len(sets)
        /\ last' = [Idle EXCEPT !.op = "ConditionSet.matches", !.target = i,
                                !.value = value, !.ok = ~got.raised,
                                !.result = got.result, !.before = Heap]
        /\ UNCHANGED <<lists, sets>>

\* sets[i].serialize()
SetSerialize(i) ==
    /\ i \in 1..Len(sets)
    /\ last' = [Idle EXCEPT !.op = "ConditionSet.serialize", !.target = i,
                            !.payload = ConditionSetSerialize(sets[i].mode,
                                                              Conditions(i)),
                            !.before = Heap]
    /\ UNCHANGED <<lists, sets>>

\* ----------------------------------------------------------- specifications

\* The life of condition sets: built, loaded, grown, matched and saved.
LifeCondition == ConditionInit("status", "is", "State.OPEN", "open")

LifePayloads ==
    {Payload(m, cs) : m \in ModeInputs,
                      cs \in {<<>>, <<Fragment("status", "is", "open")>>,
                              <<Fragment("status", "is_empty", Missing),
                                Fragment("status", "is", "nope")>>}}
        \cup {ModeOnly(m) : m \in ModeInputs}

Construct == \E mode \in (ModeInputs \ {Missing}) \cup {None}, omitted \in BOOLEAN :
                \E conds \in SeqsUpTo({LifeCondition}, 1) :
                    NewConditionSet(mode, omitted, conds)

Load == \E data \in LifePayloads : SetDeserialize(data, TRUE)

Grow == \E i \in 1..Len(sets) : AppendCondition(i, LifeCondition)

\* An open object without an owner, and one with nothing set.
LifeValues == {[status |-> "State.OPEN", owner |-> None],
               [status |-> None, owner |-> None]}

Probe == \E i \in 1..Len(sets), value \in LifeValues : SetMatches(i, value)

Match == \E i \in 1..Len(sets), value \in RuntimeValues : SetMatches(i, value)

Save == \E i \in 1..Len(sets) : SetSerialize(i)

Next == Construct \/ Load \/ Grow \/ Probe \/ Save

Spec == Init /\ [][Next]_vars

\* Conditions and payloads on their own: every fragment, every payload; what
\* is returned is looked at and dropped.  These calls read and write no state,
\* so each behaviour makes one of them, and then uses what it returned.
Fresh == last.op = "none"

Build == /\ Fresh
         /\ \E c \in ChoiceIds, v \in TypedValues, r \in {None, "open"} :
                \E o \in OperatorIds(c) : NewCondition(c, o, v, r)

Parse == /\ Fresh
         /\ \E data \in Fragments, index \in {NoIndex} \cup 0..(MaxFragments - 1) :
                CondDeserialize(data, index)

Dump == CondSerialize

Test == \E value \in RuntimeValues : CondMatches(value)

Validate == /\ Fresh
            /\ \E data \in Payloads : SetDeserialize(data, FALSE)

NextCondition == Build \/ Parse \/ Dump \/ Test \/ Validate

SpecCondition == Init /\ [][NextCondition]_vars

\* One condition set built by the caller from conditions of its own, then
\* saved, loaded back and matched.
InitBuilt ==
    \E mode \in {MODE_ALL, MODE_ANY}, conds \in SeqsUpTo(BuiltConditions, MaxLen) :
        /\ lists = << <<>>, conds >>
        /\ sets = << [mode |-> mode, conditions |-> 2] >>
        /\ last = [Idle EXCEPT !.op = "ConditionSet", !.mode = mode,
                               !.out_mode = mode, !.out_conds = conds, !.set = 1]

Reload ==
    /\ last.op = "ConditionSet.serialize"
    /\ SetDeserialize(last.payload, FALSE)

NextBuilt == Save \/ Reload \/ Match

SpecBuilt == InitBuilt /\ [][NextBuilt]_vars

\* ------------------------------------------------------------------ claims

\* What the steps of Condition.deserialize check, said of the fragment alone.
\* A step is looked at only when the ones it needs have passed.
ChoiceResolves(d) == HasKey(d, "choice") /\ d["choice"] \in ChoiceIds
OperatorResolves(d) ==
    ChoiceResolves(d) /\ HasKey(d, "op") /\ d["op"] \in OperatorIds(d["choice"])
NeedsValue(d) == OperatorResolves(d) /\ ValueField(d["choice"], d["op"]) # None

StepFails(k, d) ==
    CASE k = 1 -> ~HasKey(d, "choice")
      [] k = 2 -> ~HasKey(d, "op")
      [] k = 3 -> HasKey(d, "choice") /\ d["choice"] \notin ChoiceIds
      [] k = 4 -> ChoiceResolves(d) /\ HasKey(d, "op")
                  /\ d["op"] \notin OperatorIds(d["choice"])
      [] OTHER -> NeedsValue(d)
                  /\ (HasKey(d, "value") =>
                        ~DeserializeValue(ValueField(d["choice"], d["op"]), d["value"]).ok)

\* The first step that fails on d, 0 when none does.
FirstFailing(d) ==
    IF \E k \in 1..5 : StepFails(k, d)
    THEN CHOOSE k \in 1..5 : StepFails(k, d) /\ \A j \in 1..(k - 1) : ~StepFails(j, d)
    ELSE 0

\* The step a collaborator call belongs to.
StepOf(fn) ==
    CASE fn = "get_choice" -> 3
      [] fn = "get_operator" -> 4
      [] OTHER -> 5

\* err is the error of step k on fragment d
ErrorOfStep(err, k, d) ==
    CASE k = 1 -> err.type = "ConditionChoiceNotFoundError"
                  /\ err.msg = <<"A choice is required.">>
      [] k = 2 -> err.type = "ConditionOperatorNotFoundError"
                  /\ err.msg = <<"An operator is required.">>
      [] k = 3 -> err.type = "ConditionChoiceNotFoundError"
                  /\ err.choice_id = d["choice"]
      [] k = 4 -> err.type = "ConditionOperatorNotFoundError"
                  /\ err.operator_id = d["op"]
      [] OTHER -> err.type = "InvalidConditionValueError"

Parsed == last.op = "Condition.deserialize"

\* C5: Condition.deserialize checks, in this order, the "choice" key, the "op"
\* key, the choice in the registry, the operator under the choice and the
\* value; it raises the error of the first step that fails and calls no
\* collaborator of a later step; the collaborators it does call are called in
\* step order.
C5_ValidationOrder ==
    Parsed =>
        LET k == FirstFailing(last.data)
        IN  /\ last.ok <=> k = 0
            /\ k # 0 => /\ ErrorOfStep(last.err, k, last.data)
                        /\ last.err.condition_index = last.index
                        /\ \A i \in 1..Len(last.calls) : StepOf(last.calls[i].fn) <= k
            /\ k \in {1, 2} => last.calls = <<>>
            /\ \A i \in 1..Len(last.calls) : StepOf(last.calls[i].fn) = i + 2

\* The "op" key is missing and the choice is unknown: the missing operator is
\* reported, and the registry is never asked.
C5_Witness ==
    /\ Parsed
    /\ HasKey(last.data, "choice") /\ last.data["choice"] = "nope"
    /\ ~HasKey(last.data, "op")
    /\ last.err.type = "ConditionOperatorNotFoundError"
    /\ last.calls = <<>>

UnknownChoice == Parsed /\ HasKey(last.data, "choice") /\ last.data["choice"] \notin ChoiceIds

ChoiceNotFoundRaised ==
    /\ ~last.ok
    /\ last.err.type = "ConditionChoiceNotFoundError"
    /\ last.err.choice_id = last.data["choice"]
    /\ last.err.condition_index = last.index
    /\ \A i \in 1..Len(last.calls) : last.calls[i].fn # "get_operator"

\* C4, as claimed: a fragment whose "choice" names an unknown choice raises
\* ConditionChoiceNotFoundError with the choice_id and the condition_index,
\* whatever its "op" and "value" keys are, missing ones included.
C4_AsClaimed == UnknownChoice => ChoiceNotFoundRaised

\* C4: a fragment that has an "op" key and whose "choice" names an unknown
\* choice raises ConditionChoiceNotFoundError with the choice_id and the
\* condition_index, and get_operator is not called, whatever "op" and "value" hold.
C4_UnknownChoice == UnknownChoice /\ HasKey(last.data, "op") => ChoiceNotFoundRaised

C4_Witness ==
    /\ UnknownChoice
    /\ HasKey(last.data, "op") /\ last.data["op"] = "nope"
    /\ ~HasKey(last.data, "value")
    /\ last.index = 1
    /\ last.err.choice_id = "nope"
    /\ last.err.condition_index = 1

\* C7: when the operator resolved has a value field, a fragment without a
\* "value" key raises InvalidConditionValueError "A value is required." with
\* the condition_index and deserialize_value is not called; a fragment with a
\* "value" key, null included, has that value passed to deserialize_value,
\* whose outcome is the outcome.
C7_ValueRequired ==
    Parsed /\ NeedsValue(last.data) =>
        LET d == last.data
            required == /\ ~last.ok
                        /\ last.err.type = "InvalidConditionValueError"
                        /\ last.err.msg = <<"A value is required.">>
        IN  IF ~HasKey(d, "value")
            THEN /\ required
                 /\ last.err.condition_index = last.index
                 /\ \A i \in 1..Len(last.calls) : last.calls[i].fn # "deserialize_value"
            ELSE LET got == DeserializeValue(ValueField(d["choice"], d["op"]), d["value"])
                 IN  /\ ~required
                     /\ last.calls[Len(last.calls)] =
                            Call("deserialize_value", d["value"], last.index)
                     /\ last.ok = got.ok
                     /\ got.ok => last.cond.value = got.value
                     /\ ~got.ok => /\ last.err.type = "InvalidConditionValueError"
                                   /\ last.err.msg = got.msg
                                   /\ last.err.condition_index = last.index

\* A null value is present: the field is asked, and it is the field that refuses.
C7_Witness ==
    /\ Parsed /\ NeedsValue(last.data)
    /\ HasKey(last.data, "value") /\ last.data["value"] = None
    /\ last.data["choice"] = "status"
    /\ ~last.ok
    /\ last.err.msg # <<"A value is required.">>
    /\ last.calls[3] = Call("deserialize_value", None, last.index)

NoValueOperator ==
    Parsed /\ OperatorResolves(last.data)
    /\ ValueField(last.data["choice"], last.data["op"]) = None

\* C8: when the operator resolved has no value field, Condition.deserialize
\* returns a condition whose value and raw_value are None, with or without a
\* "value" key and whatever it holds, and the condition serializes to the keys
\* "choice" and "op" alone.
C8_NoValueOperator ==
    NoValueOperator =>
        /\ last.ok
        /\ last.cond.value = None
        /\ last.cond.raw_value = None
        /\ DOMAIN ConditionSerialize(last.cond) = {"choice", "op"}

C8_Witness ==
    /\ NoValueOperator
    /\ HasKey(last.data, "value") /\ last.data["value"] = "nope"
    /\ last.ok
    /\ last.cond.operator = "is_empty"

\* The values deserialize_value of a field returns.
Deserialized(field) ==
    {DeserializeValue(field, raw).value :
        raw \in {r \in ValueInputs \ {Missing} : DeserializeValue(field, r).ok}}

DataInvariant(cond) ==
    LET field == ValueField(cond.choice, cond.operator)
    IN  IF field = None
        THEN cond.value = None /\ cond.raw_value = None
        ELSE cond.value \in Deserialized(field)

\* C9, as claimed: every Condition, built directly or by Condition.deserialize,
\* has value and raw_value None when its operator has no value field, and a
\* deserialized value of the field otherwise.
C9_AsClaimed ==
    last.ok /\ last.op \in {"Condition", "Condition.deserialize"} =>
        DataInvariant(last.cond)

\* C9: every Condition returned by Condition.deserialize has value and
\* raw_value None when its operator has no value field, and a deserialized
\* value of the field otherwise.
C9_DataInvariant == Parsed /\ last.ok => DataInvariant(last.cond)

C9_Witness ==
    /\ Parsed /\ last.ok
    /\ NeedsValue(last.data)
    /\ last.data["value"] = "closed"
    /\ last.cond.value = "State.CLOSED"

\* C6: a payload with a valid mode and a malformed fragment in its
\* "conditions" makes ConditionSet.deserialize raise the error of the first
\* malformed fragment, with its zero-based position as condition_index; no set
\* is returned and no fragment after it is looked at.
Malformed(d) == FirstFailing(d) # 0

C6_IndexAttribution ==
    /\ last.op = "ConditionSet.deserialize"
    /\ HasKey(last.data, "mode") /\ last.data["mode"] \in {MODE_ALL, MODE_ANY}
    /\ HasKey(last.data, "conditions")
    /\ \E i \in 1..Len(last.data["conditions"]) : Malformed(last.data["conditions"][i])
    =>
        LET datas == last.data["conditions"]
            first == CHOOSE i \in 1..Len(datas) :
                        Malformed(datas[i]) /\ \A j \in 1..(i - 1) : ~Malformed(datas[j])
        IN  /\ ~last.ok
            /\ ErrorOfStep(last.err, FirstFailing(datas[first]), datas[first])
            /\ last.err.condition_index = first - 1
            /\ last.out_conds = <<>> /\ last.out_mode = None /\ last.set = 0
            /\ sets = last.before.sets /\ lists = last.before.lists
            /\ \A c \in 1..Len(last.calls) : last.calls[c].index <= first - 1

\* The second of three fragments has a value its field refuses.
C6_Witness ==
    /\ last.op = "ConditionSet.deserialize"
    /\ HasKey(last.data, "mode") /\ last.data["mode"] = MODE_ANY
    /\ HasKey(last.data, "conditions")
    /\ Len(last.data["conditions"]) = 3
    /\ ~Malformed(last.data["conditions"][1])
    /\ last.data["conditions"][2] = Fragment("status", "is", "alice")
    /\ Malformed(last.data["conditions"][3])
    /\ last.err.type = "InvalidConditionValueError"
    /\ last.err.condition_index = 1

\* The payload just loaded is what the first set serializes to.
Reloaded ==
    /\ last.op = "ConditionSet.deserialize"
    /\ Len(sets) >= 1
    /\ last.data = ConditionSetSerialize(sets[1].mode, Conditions(1))

\* The set returned has the mode of the first set and, place by place, its
\* conditions' choice, operator and value.
RoundTrips ==
    /\ last.ok
    /\ last.out_mode = sets[1].mode
    /\ Len(last.out_conds) = Len(Conditions(1))
    /\ \A i \in 1..Len(Conditions(1)) :
        /\ last.out_conds[i].choice = Conditions(1)[i].choice
        /\ last.out_conds[i].operator = Conditions(1)[i].operator
        /\ last.out_conds[i].value = Conditions(1)[i].value

Registered(cond) ==
    cond.choice \in ChoiceIds /\ cond.operator \in OperatorIds(cond.choice)

\* Validly constructed, as the claim has it: a value of the operator's field,
\* or a value left at None.
ValidAsClaimed(cond) ==
    /\ Registered(cond)
    /\ LET field == ValueField(cond.choice, cond.operator)
       IN  IF field = None THEN cond.value = None
           ELSE cond.value \in Deserialized(field) \cup {None}

\* C1, as claimed: a set whose conditions have a registered choice and
\* operator and a value of the operator's field, a value left at None
\* included, serializes to a payload that deserializes to a set with the same
\* mode and, place by place, the same choice, operator and value.
C1_AsClaimed ==
    Reloaded /\ (\A i \in 1..Len(Conditions(1)) : ValidAsClaimed(Conditions(1)[i]))
        => RoundTrips

\* C1: the same, for the sets whose conditions hold a value that the field's
\* deserialize_value returns: a value left at None only under a field that
\* deserializes null to None.
C1_RoundTrip ==
    Reloaded /\ (\A i \in 1..Len(Conditions(1)) :
                    Registered(Conditions(1)[i]) /\ DataInvariant(Conditions(1)[i]))
        => RoundTrips

C1_Witness ==
    /\ Reloaded
    /\ Len(Conditions(1)) = 2
    /\ Conditions(1)[1] = ConditionInit("status", "is", "State.CLOSED", None)
    /\ Conditions(1)[2] = ConditionInit("owner", "is", None, None)
    /\ last.data["conditions"][1]["value"] = "closed"
    /\ last.ok
    /\ last.out_conds[1].value = "State.CLOSED"

Orders(n) ==
    {p \in [1..n -> 1..n] : \A i, j \in 1..n : i # j => p[i] # p[j]}

\* C2: in mode "all" matches is True exactly when every condition matches,
\* True for no conditions; in mode "any" exactly when some condition matches,
\* False for no conditions; in any order of the conditions the result is the same.
C2_ModeSemantics ==
    last.op = "ConditionSet.matches" =>
        LET conds == Conditions(last.target)
            mode == sets[last.target].mode
            n == Len(conds)
        IN  /\ last.ok
            /\ mode = MODE_ALL =>
                last.result = (\A i \in 1..n : ConditionMatches(conds[i], last.value))
            /\ mode = MODE_ANY =>
                last.result = (\E i \in 1..n : ConditionMatches(conds[i], last.value))
            /\ n = 0 => last.result = (mode = MODE_ALL)
            /\ \A p \in Orders(n) :
                ConditionSetMatches(mode, [i \in 1..n |-> conds[p[i]]],
                                    last.value).result = last.result

\* Mode "any", the first condition does not match and the second does.
C2_Witness ==
    /\ last.op = "ConditionSet.matches"
    /\ sets[last.target].mode = MODE_ANY
    /\ Len(Conditions(last.target)) = 2
    /\ ~ConditionMatches(Conditions(last.target)[1], last.value)
    /\ ConditionMatches(Conditions(last.target)[2], last.value)
    /\ last.result

\* The mode a call was given: the argument, or the payload's "mode", None if missing.
ModeGiven ==
    IF last.op = "ConditionSet" THEN last.mode
    ELSE IF HasKey(last.data, "mode") THEN last.data["mode"] ELSE None

\* C3: ConditionSet(mode, ...) and ConditionSet.deserialize with a mode other
\* than "all" and "any", a missing one included, raise
\* InvalidConditionModeError with the mode in the message; no set is made and
\* deserialize looks at no fragment.  So every set has mode "all" or "any", and
\* matches never reaches its assertion.
C3_ModeValidation ==
    /\ last.op \in {"ConditionSet", "ConditionSet.deserialize"}
       /\ ModeGiven \notin {"all", "any"}
       => /\ ~last.ok
          /\ last.err.type = "InvalidConditionModeError"
          /\ \E i \in 1..Len(last.err.msg) : last.err.msg[i] = ToStr(ModeGiven)
          /\ last.calls = <<>>
          /\ last.set = 0
          /\ sets = last.before.sets /\ lists = last.before.lists
    /\ \A i \in 1..Len(sets) : sets[i].mode \in {"all", "any"}
    /\ last.op = "ConditionSet.matches" => last.ok

\* A payload without "mode" and with a fragment is refused, None in the message.
C3_Witness ==
    /\ last.op = "ConditionSet.deserialize"
    /\ ~HasKey(last.data, "mode")
    /\ HasKey(last.data, "conditions") /\ Len(last.data["conditions"]) > 0
    /\ ~last.ok
    /\ last.err.msg[2] = "None"
    /\ Len(sets) > 0

\* C10: a ConditionSet built without a conditions argument has a list of its
\* own: appending to the conditions of one set leaves the conditions of every
\* other set as they were, and a set built later without the argument is empty.
C10_FreshDefault ==
    /\ last.op = "append" =>
        \A j \in 1..Len(sets) :
            j # last.target =>
                Conditions(j) = last.before.lists[last.before.sets[j].conditions]
    /\ last.op = "ConditionSet" /\ last.omitted /\ last.ok =>
        Conditions(last.set) = <<>>

====
